---- MODULE Spec2Model ----
(***************************************************************************)
(* Shadow-log subscription engine (crates/rpc/src/apis/subscribe.rs).      *)
(*                                                                         *)
(* One acceptor call `subscribe` per client, one spawned consumption loop  *)
(* `handle_accepted` per accepted call, and one tokio broadcast channel    *)
(* (the block-completion bus) shared by all loops.                         *)
(***************************************************************************)
EXTENDS Integers, Sequences, FiniteSets, TLC

(* ------------------------------ bounds --------------------------------- *)
MaxSignals == 3

(* capacity of the broadcast ring buffer *)
Cap == 2

(* the subscribe calls *)
Calls == {1, 2}
Blocks == {"B1", "B2", "B3"}
Params == {"any", "addrA", "malformed"}

(* ------------------------------ state ---------------------------------- *)
VARIABLES
  cpc,        \* position of each subscribe call
  result,     \* value returned by each subscribe call
  params,     \* SubscribeParameters of each call
  sink,       \* pending / active / rejected / dropped
  spc,        \* position of each spawned handle_accepted task
  rx,         \* state of the task's broadcast Receiver
  next,       \* Receiver cursor
  regAt,      \* tail position at registration (history)
  cur,        \* block_hash bound by the current iteration
  inflight,   \* ValidatedQueryParams constructed and not yet consumed
  rest,       \* rows of intermediate_results not yet iterated
  sent,       \* messages put on the sink, in order
  processed,  \* block hashes received by the task, in order (history)
  diag,       \* diagnostic log of the task
  buffer,     \* ring buffer of the broadcast channel
  tail,       \* next position the producer writes
  closed,     \* the producer has gone
  log         \* every signal broadcast so far (history)

vars == <<cpc, result, params, sink, spc, rx, next, regAt, cur,
          inflight, rest, sent, processed, diag, buffer, tail, closed, log>>

callVars == <<cpc, result, params>>
busVars == <<buffer, tail, closed, log>>
taskVars == <<spc, rx, next, regAt, cur, inflight, rest, sent, processed, diag>>

NoBlock == "none"

(* ------------------------- pure collaborators -------------------------- *)
(* the chain: the block whose indexing the k-th signal announces *)
BlockAt(k) == IF k % 3 = 0 THEN "B1" ELSE IF k % 3 = 1 THEN "B2" ELSE "B3"

(* shadow logs stored for a block: the address of each log, in log order *)
Store(b) ==
  CASE b = "B1" -> <<"A", "B", "A">>
    [] b = "B2" -> <<"B">>
    [] OTHER    -> <<"A">>

StoredRows(b) == [i \in 1..Len(Store(b)) |-> [block |-> b, pos |-> i - 1, address |-> Store(b)[i]]]

WellFormed(p) == p # "malformed"

Matches(p, row) == p = "any" \/ (p = "addrA" /\ row.address = "A")

(* rows exec_query returns for a validated query, in storage order *)
RowsOf(q) == SelectSeq(StoredRows(q.block), LAMBDA r : Matches(q.filter, r))

(* ValidatedQueryParams::from_subscribe_parameters on success *)
Validated(p, h) == [filter |-> p, block |-> h]

(* RpcLog::from *)
RpcLogFrom(row) == [address |-> row.address, blockHash |-> row.block, logIndex |-> row.pos]

(* SubscriptionMessage::from_json on success *)
FromJson(l) == [kind |-> "log", body |-> l]

(* ------------------------------ initial -------------------------------- *)
Init ==
  /\ cpc = [c \in Calls |-> "idle"]
  /\ result = [c \in Calls |-> "none"]
  /\ params = [c \in Calls |-> "any"]
  /\ sink = [c \in Calls |-> "pending"]
  /\ spc = [c \in Calls |-> "none"]
  /\ rx = [c \in Calls |-> "none"]
  /\ next = [c \in Calls |-> 0]
  /\ regAt = [c \in Calls |-> 0]
  /\ cur = [c \in Calls |-> NoBlock]
  /\ inflight = [c \in Calls |-> {}]
  /\ rest = [c \in Calls |-> <<>>]
  /\ sent = [c \in Calls |-> <<>>]
  /\ processed = [c \in Calls |-> <<>>]
  /\ diag = [c \in Calls |-> <<>>]
  /\ buffer = [i \in 0..(Cap - 1) |-> [pos |-> i - Cap, val |-> NoBlock]]
  /\ tail = 0
  /\ closed = FALSE
  /\ log = <<>>

(* ------------------------------ the bus -------------------------------- *)
(* Sender::send by the indexer *)
Broadcast(h) ==
  /\ ~closed
  /\ tail < MaxSignals
  /\ buffer' = [buffer EXCEPT ![tail % Cap] = [pos |-> tail, val |-> h]]
  /\ tail' = tail + 1
  /\ log' = Append(log, h)
  /\ UNCHANGED <<closed, callVars, sink, taskVars>>

(* the indexer drops its Sender *)
ProducerClose ==
  /\ ~closed
  /\ closed' = TRUE
  /\ UNCHANGED <<buffer, tail, log, callVars, sink, taskVars>>

(* ---------------------------- the acceptor ----------------------------- *)
(* the subscribe call arrives and awaits pending.accept() *)
Subscribe(c, p) ==
  /\ cpc[c] = "idle"
  /\ cpc' = [cpc EXCEPT ![c] = "accept"]
  /\ params' = [params EXCEPT ![c] = p]
  /\ UNCHANGED <<result, sink, taskVars, busVars>>

(* variant of Accept: the handshake is not awaited before going on *)
AcceptNoWait(c) ==
  /\ cpc[c] = "accept"
  /\ cpc' = [cpc EXCEPT ![c] = "spawn"]
  /\ UNCHANGED <<result, params, sink, taskVars, busVars>>

(* variant of Accept: a failed handshake is not propagated with `?` *)
AcceptUnchecked(c) ==
  /\ cpc[c] = "accept"
  /\ \E established \in BOOLEAN :
       /\ sink' = [sink EXCEPT ![c] = IF established THEN "active" ELSE "rejected"]
       /\ cpc' = [cpc EXCEPT ![c] = "spawn"]
       /\ UNCHANGED <<result, params, taskVars, busVars>>

(* pending.accept().await, then `?`: the sink, or the handshake error returned *)
Accept(c) ==
  /\ cpc[c] = "accept"
  /\ \E established \in BOOLEAN :
       IF established
       THEN /\ sink' = [sink EXCEPT ![c] = "active"]
            /\ cpc' = [cpc EXCEPT ![c] = "spawn"]
            /\ UNCHANGED <<result, params, taskVars, busVars>>
       ELSE /\ sink' = [sink EXCEPT ![c] = "rejected"]
            /\ cpc' = [cpc EXCEPT ![c] = "returned"]
            /\ result' = [result EXCEPT ![c] = "err"]
            /\ UNCHANGED <<params, taskVars, busVars>>

(* variant of Spawn: the task is spawned while the handshake is still awaited *)
SpawnEarly(c) ==
  /\ cpc[c] \in {"accept", "spawn"}
  /\ spc[c] = "none"
  /\ rx' = [rx EXCEPT ![c] = "live"]
  /\ next' = [next EXCEPT ![c] = tail]
  /\ regAt' = [regAt EXCEPT ![c] = tail]
  /\ spc' = [spc EXCEPT ![c] = "recv"]
  /\ cpc' = [cpc EXCEPT ![c] = IF cpc[c] = "spawn" THEN "ret" ELSE "accept"]
  /\ UNCHANGED <<result, params, sink, cur, inflight, rest, sent, processed, diag, busVars>>

(* variant of Spawn: the new receiver starts at the oldest signal the bus retains *)
SpawnReplaysBacklog(c) ==
  /\ cpc[c] = "spawn"
  /\ rx' = [rx EXCEPT ![c] = "live"]
  /\ next' = [next EXCEPT ![c] = IF tail > Cap THEN tail - Cap ELSE 0]
  /\ regAt' = [regAt EXCEPT ![c] = tail]
  /\ spc' = [spc EXCEPT ![c] = "recv"]
  /\ cpc' = [cpc EXCEPT ![c] = "ret"]
  /\ UNCHANGED <<result, params, sink, cur, inflight, rest, sent, processed, diag, busVars>>

(* tokio::spawn({ ...; rpc.indexed_block_hash_receiver.resubscribe(); async move {..} }) *)
Spawn(c) ==
  /\ cpc[c] = "spawn"
  /\ rx' = [rx EXCEPT ![c] = "live"]
  /\ next' = [next EXCEPT ![c] = tail]
  /\ regAt' = [regAt EXCEPT ![c] = tail]
  /\ spc' = [spc EXCEPT ![c] = "recv"]
  /\ cpc' = [cpc EXCEPT ![c] = "ret"]
  /\ UNCHANGED <<result, params, sink, cur, inflight, rest, sent, processed, diag, busVars>>

(* variant of ReturnOk: the call waits for its task and returns the task's result *)
ReturnTaskResult(c) ==
  /\ cpc[c] = "ret"
  /\ spc[c] \in {"done_ok", "done_err", "aborted"}
  /\ cpc' = [cpc EXCEPT ![c] = "returned"]
  /\ result' = [result EXCEPT ![c] = IF spc[c] = "done_err" THEN "err" ELSE "ok"]
  /\ UNCHANGED <<params, sink, taskVars, busVars>>

(* Ok(()) *)
ReturnOk(c) ==
  /\ cpc[c] = "ret"
  /\ cpc' = [cpc EXCEPT ![c] = "returned"]
  /\ result' = [result EXCEPT ![c] = "ok"]
  /\ UNCHANGED <<params, sink, taskVars, busVars>>

(* ------------------------- the consumption loop ------------------------ *)
(* the task's future completes: its Receiver and sink are dropped *)
Exit(c, pcv, entry) ==
  /\ spc' = [spc EXCEPT ![c] = pcv]
  /\ rx' = [rx EXCEPT ![c] = "dropped"]
  /\ sink' = [sink EXCEPT ![c] = "dropped"]
  /\ diag' = [diag EXCEPT ![c] = Append(@, entry)]

(* variant of Fail: the error is logged and the loop goes on with the next signal *)
FailAndContinue(c, cause) ==
  /\ diag' = [diag EXCEPT ![c] = Append(@, [kind |-> "error", cause |-> cause])]
  /\ spc' = [spc EXCEPT ![c] = "recv"]
  /\ inflight' = [inflight EXCEPT ![c] = {}]
  /\ rest' = [rest EXCEPT ![c] = <<>>]
  /\ UNCHANGED <<callVars, sink, rx, next, regAt, cur, sent, processed, busVars>>

(* variant of Fail: the error object is sent to the client before the task ends *)
FailAndNotify(c, cause) ==
  /\ Exit(c, "done_err", [kind |-> "error", cause |-> cause])
  /\ sent' = [sent EXCEPT ![c] = Append(@, [kind |-> "error", body |-> cause])]
  /\ inflight' = [inflight EXCEPT ![c] = {}]
  /\ rest' = [rest EXCEPT ![c] = <<>>]
  /\ UNCHANGED <<callVars, next, regAt, cur, processed, busVars>>

(* variant of Fail: the error is logged and the loop is left with Ok(()) *)
FailSwallowed(c, cause) ==
  /\ Exit(c, "done_ok", [kind |-> "error", cause |-> cause])
  /\ inflight' = [inflight EXCEPT ![c] = {}]
  /\ rest' = [rest EXCEPT ![c] = <<>>]
  /\ UNCHANGED <<callVars, next, regAt, cur, sent, processed, busVars>>

(* `?` on a failed step: handle_accepted returns Err, inspect_err logs it *)
Fail(c, cause) ==
  /\ Exit(c, "done_err", [kind |-> "error", cause |-> cause])
  /\ inflight' = [inflight EXCEPT ![c] = {}]
  /\ rest' = [rest EXCEPT ![c] = <<>>]
  /\ UNCHANGED <<callVars, next, regAt, cur, sent, processed, busVars>>

(* variant of RecvSignal: the cursor is not moved past the signal received *)
RecvSignalNoAdvance(c, slot) ==
  /\ slot.pos = next[c]
  /\ cur' = [cur EXCEPT ![c] = slot.val]
  /\ processed' = [processed EXCEPT ![c] = Append(@, slot.val)]
  /\ spc' = [spc EXCEPT ![c] = "validate"]
  /\ UNCHANGED <<callVars, sink, rx, next, regAt, inflight, rest, sent, diag, busVars>>

(* variant of RecvSignal: the signal is taken out of the shared buffer *)
RecvSignalSteals(c, slot) ==
  /\ slot.pos = next[c]
  /\ next' = [next EXCEPT ![c] = @ + 1]
  /\ cur' = [cur EXCEPT ![c] = slot.val]
  /\ processed' = [processed EXCEPT ![c] = Append(@, slot.val)]
  /\ spc' = [spc EXCEPT ![c] = "validate"]
  /\ buffer' = [buffer EXCEPT ![next[c] % Cap] = [pos |-> slot.pos - Cap, val |-> NoBlock]]
  /\ UNCHANGED <<callVars, sink, rx, regAt, inflight, rest, sent, diag, tail, closed, log>>

(* variant of RecvSignal: the value is read from the slot after the cursor's *)
RecvSignalWrongSlot(c, slot) ==
  /\ slot.pos = next[c]
  /\ next' = [next EXCEPT ![c] = @ + 1]
  /\ cur' = [cur EXCEPT ![c] = buffer[(next[c] + 1) % Cap].val]
  /\ processed' = [processed EXCEPT ![c] = Append(@, buffer[(next[c] + 1) % Cap].val)]
  /\ spc' = [spc EXCEPT ![c] = "validate"]
  /\ UNCHANGED <<callVars, sink, rx, regAt, inflight, rest, sent, diag, busVars>>

(* recv() finds the slot at its cursor: Ok(block_hash) *)
RecvSignal(c, slot) ==
  /\ slot.pos = next[c]
  /\ next' = [next EXCEPT ![c] = @ + 1]
  /\ cur' = [cur EXCEPT ![c] = slot.val]
  /\ processed' = [processed EXCEPT ![c] = Append(@, slot.val)]
  /\ spc' = [spc EXCEPT ![c] = "validate"]
  /\ UNCHANGED <<callVars, sink, rx, regAt, inflight, rest, sent, diag, busVars>>

(* variant of RecvLagged: the Lagged error ends the loop like any other error *)
RecvLaggedFatal(c, slot) ==
  /\ slot.pos # next[c]
  /\ slot.pos + Cap # next[c]
  /\ Fail(c, "lagged")

(* recv() finds its slot overwritten: Err(RecvError::Lagged(lag_count)), warn! *)
RecvLagged(c, slot) ==
  /\ slot.pos # next[c]
  /\ slot.pos + Cap # next[c]
  /\ next' = [next EXCEPT ![c] = tail - Cap]
  /\ diag' = [diag EXCEPT ![c] =
                Append(@, [kind |-> "lagged", count |-> (tail - Cap) - next[c]])]
  /\ UNCHANGED <<callVars, sink, spc, rx, regAt, cur, inflight, rest, sent,
                 processed, busVars>>

(* variant of RecvClosed: Closed is reported as soon as the Sender is gone, *)
(* buffered signals or not, and ends the loop as an error                  *)
RecvClosedEager(c, slot) ==
  /\ closed
  /\ Fail(c, "closed")

(* variant of RecvClosed: Closed is not matched, the task goes on waiting *)
RecvClosedIgnored(c, slot) ==
  /\ slot.pos # next[c]
  /\ slot.pos + Cap = next[c]
  /\ closed
  /\ UNCHANGED vars

(* recv() finds nothing buffered and the Sender gone: Err(RecvError::Closed), break *)
RecvClosed(c, slot) ==
  /\ slot.pos # next[c]
  /\ slot.pos + Cap = next[c]
  /\ closed
  /\ Exit(c, "done_ok", [kind |-> "ended"])
  /\ UNCHANGED <<callVars, next, regAt, cur, inflight, rest, sent, processed, busVars>>

(* match indexed_block_hash_receiver.recv().await *)
Recv(c) ==
  /\ spc[c] = "recv"
  /\ LET slot == buffer[next[c] % Cap] IN
       \/ RecvSignal(c, slot)
       \/ RecvLagged(c, slot)
       \/ RecvClosed(c, slot)

(* variant of Validate: the parameters validated for the first block are reused *)
ValidateCached(c) ==
  /\ spc[c] = "validate"
  /\ \E resolved \in BOOLEAN :
       IF resolved /\ WellFormed(params[c])
       THEN /\ inflight' = [inflight EXCEPT ![c] = @ \cup {Validated(params[c], processed[c][1])}]
            /\ spc' = [spc EXCEPT ![c] = "query"]
            /\ UNCHANGED <<callVars, sink, rx, next, regAt, cur, rest, sent, processed,
                           diag, busVars>>
       ELSE Fail(c, "validation")

(* ValidatedQueryParams::from_subscribe_parameters(&provider, params.clone(), block_hash)? *)
Validate(c) ==
  /\ spc[c] = "validate"
  /\ \E resolved \in BOOLEAN :
       IF resolved /\ WellFormed(params[c])
       THEN /\ inflight' = [inflight EXCEPT ![c] = @ \cup {Validated(params[c], cur[c])}]
            /\ spc' = [spc EXCEPT ![c] = "query"]
            /\ UNCHANGED <<callVars, sink, rx, next, regAt, cur, rest, sent, processed,
                           diag, busVars>>
       ELSE Fail(c, "validation")

(* variant of Iterate: a result with no row left ends the loop *)
IterateStopsOnEmpty(rows) == IF rows = <<>> THEN "done_ok" ELSE "send"

(* the for loop over intermediate_results: another row, or back to recv *)
Iterate(rows) == IF rows = <<>> THEN "recv" ELSE "send"

(* variant of Query: the validated parameters are kept across iterations *)
QueryKeepsParams(c) ==
  /\ spc[c] = "query"
  /\ \E q \in inflight[c], ok \in BOOLEAN :
       IF ok
       THEN /\ rest' = [rest EXCEPT ![c] = RowsOf(q)]
            /\ spc' = [spc EXCEPT ![c] = Iterate(RowsOf(q))]
            /\ UNCHANGED <<callVars, sink, rx, next, regAt, cur, inflight, sent,
                           processed, diag, busVars>>
       ELSE Fail(c, "query")

(* exec_query(query_params, &sqlite_manager.pool).await? *)
Query(c) ==
  /\ spc[c] = "query"
  /\ \E q \in inflight[c], ok \in BOOLEAN :
       IF ok
       THEN /\ inflight' = [inflight EXCEPT ![c] = @ \ {q}]
            /\ rest' = [rest EXCEPT ![c] = RowsOf(q)]
            /\ spc' = [spc EXCEPT ![c] = Iterate(RowsOf(q))]
            /\ UNCHANGED <<callVars, sink, rx, next, regAt, cur, sent, processed,
                           diag, busVars>>
       ELSE Fail(c, "query")

(* variant of SendRow: the rows are taken from the back of the result *)
SendRowReversed(c) ==
  /\ spc[c] = "send"
  /\ LET n == Len(rest[c]) IN
       /\ sent' = [sent EXCEPT ![c] = Append(@, FromJson(RpcLogFrom(rest[c][n])))]
       /\ rest' = [rest EXCEPT ![c] = SubSeq(@, 1, n - 1)]
       /\ spc' = [spc EXCEPT ![c] = Iterate(SubSeq(rest[c], 1, n - 1))]
  /\ UNCHANGED <<callVars, sink, rx, next, regAt, cur, inflight, processed, diag, busVars>>

(* variant of SendRow: a row that cannot be serialized or sent is logged and skipped *)
SendRowSkipsFailed(c) ==
  /\ spc[c] = "send"
  /\ \E outcome \in {"sent", "serialization", "send"} :
       /\ IF outcome = "sent"
          THEN /\ sent' = [sent EXCEPT ![c] = Append(@, FromJson(RpcLogFrom(Head(rest[c]))))]
               /\ diag' = diag
          ELSE /\ sent' = sent
               /\ diag' = [diag EXCEPT ![c] = Append(@, [kind |-> "error", cause |-> outcome])]
       /\ rest' = [rest EXCEPT ![c] = Tail(@)]
       /\ spc' = [spc EXCEPT ![c] = Iterate(Tail(rest[c]))]
       /\ UNCHANGED <<callVars, sink, rx, next, regAt, cur, inflight, processed, busVars>>

(* one iteration of the for loop:                                          *)
(* SubscriptionMessage::from_json(&result)?; accepted_sink.send(message).await? *)
SendRow(c) ==
  /\ spc[c] = "send"
  /\ \E outcome \in {"sent", "serialization", "send"} :
       IF outcome = "sent"
       THEN /\ sent' = [sent EXCEPT ![c] = Append(@, FromJson(RpcLogFrom(Head(rest[c]))))]
            /\ rest' = [rest EXCEPT ![c] = Tail(@)]
            /\ spc' = [spc EXCEPT ![c] = Iterate(Tail(rest[c]))]
            /\ UNCHANGED <<callVars, sink, rx, next, regAt, cur, inflight, processed,
                           diag, busVars>>
       ELSE Fail(c, outcome)

(* variant of Abort: the dropped task leaves its Receiver registered *)
AbortLeaksReceiver(c) ==
  /\ spc[c] \in {"recv", "query", "send"}
  /\ spc' = [spc EXCEPT ![c] = "aborted"]
  /\ sink' = [sink EXCEPT ![c] = "dropped"]
  /\ inflight' = [inflight EXCEPT ![c] = {}]
  /\ rest' = [rest EXCEPT ![c] = <<>>]
  /\ UNCHANGED <<callVars, rx, next, regAt, cur, sent, processed, diag, busVars>>

(* the runtime drops the task at one of its await points *)
Abort(c) ==
  /\ spc[c] \in {"recv", "query", "send"}
  /\ spc' = [spc EXCEPT ![c] = "aborted"]
  /\ rx' = [rx EXCEPT ![c] = "dropped"]
  /\ sink' = [sink EXCEPT ![c] = "dropped"]
  /\ inflight' = [inflight EXCEPT ![c] = {}]
  /\ rest' = [rest EXCEPT ![c] = <<>>]
  /\ UNCHANGED <<callVars, next, regAt, cur, sent, processed, diag, busVars>>

(* --------------------------- specification ----------------------------- *)
(* every step of the calls in S and of their tasks *)
Session(S) ==
  \/ \E c \in S, p \in Params : Subscribe(c, p)
  \/ \E c \in S : Accept(c)
  \/ \E c \in S : Spawn(c)
  \/ \E c \in S : ReturnOk(c)
  \/ \E c \in S : Recv(c)
  \/ \E c \in S : Validate(c)
  \/ \E c \in S : Query(c)
  \/ \E c \in S : SendRow(c)
  \/ \E c \in S : Abort(c)

(* two concurrent subscriptions; the indexer announces the chain in order *)
Next ==
  \/ Broadcast(BlockAt(tail))
  \/ ProducerClose
  \/ Session(Calls)

Spec == Init /\ [][Next]_vars

(* one subscription; the indexer announces any block at any time *)
NextOne ==
  \/ \E h \in Blocks : Broadcast(h)
  \/ ProducerClose
  \/ Session({1})

SpecOne == Init /\ [][NextOne]_vars

(* the runtime keeps polling a task that can go on: each step of the loop  *)
(* that stays enabled is eventually taken                                   *)
FairOne ==
  /\ SpecOne
  /\ WF_vars(Recv(1))
  /\ WF_vars(Validate(1))
  /\ WF_vars(Query(1))
  /\ WF_vars(SendRow(1))

TypeOK ==
  /\ cpc \in [Calls -> {"idle", "accept", "spawn", "ret", "returned"}]
  /\ result \in [Calls -> {"none", "ok", "err"}]
  /\ spc \in [Calls -> {"none", "recv", "validate", "query", "send",
                        "done_ok", "done_err", "aborted"}]
  /\ tail \in 0..MaxSignals

(* ------------------------------ helpers -------------------------------- *)
RECURSIVE Concat(_, _)
(* the messages of the blocks bs under filter p: one per row, blocks in order *)
Concat(p, bs) ==
  IF bs = <<>> THEN <<>>
  ELSE LET rows == RowsOf(Validated(p, Head(bs)))
       IN [i \in 1..Len(rows) |-> FromJson(RpcLogFrom(rows[i]))] \o Concat(p, Tail(bs))

Front(sq) == SubSeq(sq, 1, Len(sq) - 1)

Lagged(c) == \E i \in DOMAIN diag[c] : diag[c][i].kind = "lagged"

LastDiag(c, kind) == diag[c] # <<>> /\ diag[c][Len(diag[c])].kind = kind

FailedOn(c, cause) == LastDiag(c, "error") /\ diag[c][Len(diag[c])].cause = cause

(* ------------------------------- claims -------------------------------- *)
(* C1: with no Lagged, no Closed and no terminal error, a session waiting  *)
(* for its next signal has received exactly the signals broadcast since    *)
(* its registration, and has sent the concatenation of their query         *)
(* results, one message per row, rows in query order, blocks in signal     *)
(* order; while it is still sending a block, what it sent followed by the  *)
(* rows left is that concatenation.                                        *)
C1_DeliveredIsConcatenation ==
  \A c \in Calls :
    /\ (spc[c] = "recv" /\ ~Lagged(c)) =>
          /\ processed[c] = SubSeq(log, regAt[c] + 1, next[c])
          /\ sent[c] = Concat(params[c], processed[c])
    /\ spc[c] = "send" =>
          sent[c] \o [i \in 1..Len(rest[c]) |-> FromJson(RpcLogFrom(rest[c][i]))]
             = Concat(params[c], processed[c])

C1_Witness ==
  \E c \in Calls :
    /\ spc[c] = "recv" /\ ~Lagged(c)
    /\ params[c] = "any"
    /\ Len(processed[c]) >= 2
    /\ Len(sent[c]) >= 4

(* C2: a message is put on a sink only after that sink's handshake was     *)
(* accepted: every send happens on an active sink, and a session that has  *)
(* sent something belongs to a call whose accept completed.                *)
C2_AcceptBeforeFirstMessage ==
  /\ [](\A c \in Calls : sent[c] # <<>> => sink[c] \in {"active", "dropped"})
  /\ [][\A c \in Calls : sent'[c] # sent[c] => sink[c] = "active"]_vars

C2_Witness ==
  \E c \in Calls : WellFormed(params[c]) /\ sent[c] # <<>> /\ sink[c] = "active"

(* C3 as stated: whenever a session has sent a message, the subscribe call *)
(* that spawned it has already returned Ok.                                *)
C3_ReturnBeforeFirstMessage ==
  \A c \in Calls : sent[c] # <<>> => (cpc[c] = "returned" /\ result[c] = "ok")

(* C3 amended: an accepted subscribe call returns Ok and nothing else, and *)
(* its acceptance and the spawn of its session precede the session's first *)
(* send; the return itself may come after that send.                       *)
C3_SpawnBeforeFirstMessage ==
  \A c \in Calls :
    /\ sent[c] # <<>> => cpc[c] \in {"ret", "returned"}
    /\ spc[c] # "none" => cpc[c] \in {"ret", "returned"}
    /\ (cpc[c] = "returned" /\ sink[c] # "rejected") => result[c] = "ok"
    /\ result[c] = "ok" => cpc[c] = "returned"

C3_Witness ==
  \E c \in Calls : sent[c] # <<>> /\ cpc[c] = "ret" /\ result[c] = "none"

(* C4: a receive that yields Lagged(K) leaves the session waiting, with    *)
(* its sink, its receiver and its sent messages untouched; K is appended   *)
(* to the diagnostics only; the cursor moves to the oldest signal the bus  *)
(* still retains, and every signal a session receives is the one at its    *)
(* cursor.                                                                 *)
C4_LaggedIsNotTerminal ==
  [][\A c \in Calls :
       /\ (spc[c] = "recv" /\ tail - next[c] > Cap /\ (next'[c] # next[c] \/ diag'[c] # diag[c])) =>
            /\ spc'[c] = "recv"
            /\ sent'[c] = sent[c] /\ sink'[c] = sink[c] /\ rx'[c] = rx[c]
            /\ processed'[c] = processed[c]
            /\ diag'[c] = Append(diag[c], [kind |-> "lagged", count |-> tail - Cap - next[c]])
            /\ next'[c] = tail - Cap
            /\ \A i \in DOMAIN buffer : buffer[i].pos >= next'[c]
            /\ buffer[next'[c] % Cap].val = log[next'[c] + 1]
       /\ (spc[c] = "recv" /\ spc'[c] = "validate") =>
            /\ tail - next[c] <= Cap
            /\ cur'[c] = log[next[c] + 1]
            /\ next'[c] = next[c] + 1
  ]_vars

C4_Witness ==
  \E c \in Calls :
    /\ LastDiag(c, "lagged")
    /\ spc[c] = "send"
    /\ cur[c] = log[regAt[c] + diag[c][1].count + 1]

(* a step in which the listener receive of session c completes *)
RecvStep(c) ==
  /\ spc[c] = "recv"
  /\ spc'[c] # "aborted"
  /\ (spc'[c] # spc[c] \/ next'[c] # next[c] \/ diag'[c] # diag[c])

(* C5 as stated: once the producer has closed, the next listener receive   *)
(* of every session ends that session, successfully.                       *)
C5_ClosedEndsAtNextReceive ==
  [][\A c \in Calls : (closed /\ RecvStep(c)) => spc'[c] = "done_ok"]_vars

(* C5 amended: once the producer has closed, a session that has nothing    *)
(* buffered ends at its next listener receive, which is then enabled: it   *)
(* ends with success, logs no error and sends nothing. A session ends with *)
(* success only so. A session with signals still buffered receives those   *)
(* (or Lagged) first.                                                      *)
C5_ClosedAndDrainedEndsAtNextReceive ==
  /\ [][\A c \in Calls :
          /\ (closed /\ next[c] = tail /\ RecvStep(c)) =>
               /\ spc'[c] = "done_ok"
               /\ diag'[c] = Append(diag[c], [kind |-> "ended"])
               /\ sent'[c] = sent[c]
          /\ (spc[c] # "done_ok" /\ spc'[c] = "done_ok") =>
               (closed /\ next[c] = tail /\ spc[c] = "recv")
     ]_vars
  /\ [](\A c \in Calls :
          /\ (closed /\ next[c] = tail /\ spc[c] = "recv") => ENABLED Recv(c)
          /\ spc[c] = "done_ok" => \A i \in DOMAIN diag[c] : diag[c][i].kind # "error")

C5_Witness ==
  \E c \in Calls :
    /\ spc[c] = "done_ok" /\ closed
    /\ Len(processed[c]) >= 2 /\ sent[c] # <<>>

(* C6: once exec_query has failed in a session, the session is over: what  *)
(* it has sent is exactly the full result of every block received before   *)
(* the failing one, nothing of the failing block, and nothing is sent      *)
(* afterwards.                                                             *)
C6_QueryFailureSendsNothingForBlock ==
  /\ [](\A c \in Calls : FailedOn(c, "query") =>
          /\ spc[c] = "done_err"
          /\ sink[c] = "dropped"
          /\ rest[c] = <<>>
          /\ sent[c] = Concat(params[c], Front(processed[c])))
  /\ [][\A c \in Calls : FailedOn(c, "query") =>
          (sent'[c] = sent[c] /\ spc'[c] = spc[c] /\ processed'[c] = processed[c])]_vars

C6_Witness ==
  \E c \in Calls :
    /\ FailedOn(c, "query")
    /\ Len(processed[c]) >= 2
    /\ sent[c] # <<>>
    /\ RowsOf(Validated(params[c], cur[c])) # <<>>

(* everything of session d outside the acceptor *)
SessionState(d) ==
  <<spc[d], rx[d], next[d], regAt[d], cur[d], inflight[d], rest[d], sent[d],
    processed[d], diag[d], sink[d]>>

C8_HandshakeFailureCreatesNothing ==
  /\ [](\A c \in Calls :
          /\ sink[c] = "rejected" => (cpc[c] = "returned" /\ result[c] = "err")
          /\ result[c] = "err" =>
               /\ sink[c] = "rejected"
               /\ spc[c] = "none" /\ rx[c] = "none"
               /\ sent[c] = <<>> /\ processed[c] = <<>> /\ diag[c] = <<>>)
  /\ [][\A c \in Calls : result[c] = "err" =>
          (SessionState(c)' = SessionState(c) /\ result'[c] = "err" /\ cpc'[c] = cpc[c])]_vars

C8_Witness ==
  \E c, d \in Calls :
    /\ result[c] = "err" /\ tail >= 1
    /\ sent[d] # <<>>

(* what the client of call c can see: the messages on its sink and whether *)
(* the stream is still there                                               *)
ClientView(c) == [stream |-> sent[c], state |-> sink[c]]

Logs(c) == SelectSeq(sent[c], LAMBDA m : m.kind = "log")

(* C9: only log messages are ever put on a sink; a session that ended, on  *)
(* an error or on Closed, has dropped its sink and sent nothing else; so   *)
(* two ended sessions that delivered the same logs look the same to their  *)
(* clients, whichever way they ended.                                      *)
C9_ErrorExitLooksLikeCleanExit ==
  /\ [](\A c \in Calls :
          /\ \A i \in DOMAIN sent[c] : sent[c][i].kind = "log"
          /\ spc[c] \in {"done_ok", "done_err"} => sink[c] = "dropped")
  /\ [](\A c, d \in Calls :
          (spc[c] = "done_err" /\ spc[d] = "done_ok" /\ Logs(c) = Logs(d))
             => ClientView(c) = ClientView(d))
  /\ [][\A c \in Calls :
          (spc[c] # spc'[c] /\ spc'[c] \in {"done_ok", "done_err"}) => sent'[c] = sent[c]]_vars

C9_Witness ==
  \E c, d \in Calls :
    /\ spc[c] = "done_err" /\ spc[d] = "done_ok"
    /\ sent[c] # <<>> /\ sent[c] = sent[d]

(* C10: a session holds at most one ValidatedQueryParams, only between its *)
(* validation and its query; it waits on the listener, and moves its       *)
(* cursor, only when no validated parameters and no unsent row are left.   *)
C10_OneBlockAtATime ==
  /\ [](\A c \in Calls :
          /\ Cardinality(inflight[c]) <= 1
          /\ inflight[c] # {} => (spc[c] = "query" /\ inflight[c] = {Validated(params[c], cur[c])})
          /\ spc[c] = "recv" => (inflight[c] = {} /\ rest[c] = <<>>)
          /\ rest[c] # <<>> => spc[c] = "send")
  /\ [][\A c \in Calls : next'[c] # next[c] =>
          (inflight[c] = {} /\ rest[c] = <<>> /\ spc[c] \in {"recv", "none"})]_vars

C10_Witness ==
  \E c \in Calls :
    /\ spc[c] = "query"
    /\ Len(processed[c]) >= 2
    /\ sent[c] # <<>>
    /\ inflight[c] = {Validated(params[c], cur[c])}

RECURSIVE LagSum(_)
(* the signals a diagnostic log reports as dropped *)
LagSum(d) ==
  IF d = <<>> THEN 0
  ELSE (IF Head(d).kind = "lagged" THEN Head(d).count ELSE 0) + LagSum(Tail(d))

(* C11: a session's cursor never moves back; every signal it receives is   *)
(* the one at its cursor and moves the cursor past it; a Lagged moves the  *)
(* cursor forward by its count. So each bus position between the           *)
(* registration and the cursor was either received once or reported        *)
(* dropped once, and none is received twice or after it was skipped.       *)
C11_SignalConsumedAtMostOnce ==
  /\ [][\A c \in Calls :
          /\ spc[c] # "none" => next'[c] >= next[c]
          /\ processed'[c] # processed[c] =>
               /\ next'[c] = next[c] + 1
               /\ processed'[c] = Append(processed[c], log[next[c] + 1])
          /\ LagSum(diag'[c]) # LagSum(diag[c]) =>
               /\ next'[c] - next[c] = LagSum(diag'[c]) - LagSum(diag[c])
               /\ next'[c] > next[c]
               /\ processed'[c] = processed[c]
     ]_vars
  /\ [](\A c \in Calls :
          spc[c] # "none" => next[c] - regAt[c] = Len(processed[c]) + LagSum(diag[c]))

C11_Witness ==
  \E c \in Calls :
    /\ Lagged(c)
    /\ Len(processed[c]) >= 2
    /\ next[c] = tail

(* C12: a receiver is registered only for an accepted call and exists      *)
(* before its task runs; it is registered at the bus position current at   *)
(* that moment, and every signal the session receives was broadcast at or  *)
(* after that position: nothing broadcast before the registration, while   *)
(* the call was waiting for its handshake or earlier, is ever received.    *)
C12_NoBacklogBeforeRegistration ==
  /\ [](\A c \in Calls :
          /\ rx[c] # "none" => sink[c] \in {"active", "dropped"}
          /\ spc[c] # "none" => rx[c] # "none"
          /\ rx[c] = "none" => (processed[c] = <<>> /\ sent[c] = <<>>))
  /\ [][\A c \in Calls :
          /\ (rx[c] = "none" /\ rx'[c] # "none") =>
               /\ cpc[c] = "spawn" /\ sink[c] = "active"
               /\ next'[c] = Len(log) /\ regAt'[c] = Len(log)
          /\ rx[c] # "none" => regAt'[c] = regAt[c]
          /\ processed'[c] # processed[c] =>
               /\ next[c] >= regAt[c]
               /\ processed'[c] = Append(processed[c], log[next[c] + 1])
     ]_vars

C12_Witness ==
  \E c \in Calls :
    /\ regAt[c] >= 1
    /\ processed[c] # <<>> /\ sent[c] # <<>>
    /\ processed[c][1] = log[regAt[c] + 1]
    /\ processed[c][1] # log[1]

(* the failure that can end the loop at each of its positions *)
CausesAt(pcv) ==
  CASE pcv = "validate" -> {"validation"}
    [] pcv = "query"    -> {"query"}
    [] pcv = "send"     -> {"serialization", "send"}
    [] OTHER            -> {}

(* C13: the loop returns Ok exactly when its receive yielded Closed, and   *)
(* Err exactly when validation, query, serialization or send failed, the   *)
(* failure being the one of the step the loop was at; an error is the last *)
(* thing a session does (no retry), and a session that has exited never    *)
(* changes again: no further signal, no further message.                   *)
C13_ExitStatusFollowsCause ==
  /\ [](\A c \in Calls :
          /\ spc[c] = "done_ok" <=> LastDiag(c, "ended")
          /\ spc[c] = "done_err" <=> LastDiag(c, "error")
          /\ \A i \in DOMAIN diag[c] :
               diag[c][i].kind \in {"error", "ended"} => i = Len(diag[c]))
  /\ [][\A c \in Calls :
          /\ (spc[c] # "done_ok" /\ spc'[c] = "done_ok") =>
               (spc[c] = "recv" /\ closed /\ next[c] = Len(log))
          /\ (spc[c] # "done_err" /\ spc'[c] = "done_err") =>
               /\ diag'[c] = Append(diag[c], diag'[c][Len(diag'[c])])
               /\ diag'[c][Len(diag'[c])].cause \in CausesAt(spc[c])
          /\ spc[c] \in {"done_ok", "done_err", "aborted"} =>
               SessionState(c)' = SessionState(c)
     ]_vars

C13_Witness ==
  \E c \in Calls :
    /\ spc[c] = "done_err"
    /\ FailedOn(c, "serialization")
    /\ Len(processed[c]) >= 2 /\ sent[c] # <<>>
    /\ next[c] < tail

(* the receivers subscribe has registered and that are still on the bus *)
Registrations == {c \in Calls : rx[c] = "live"}

(* the sessions that were spawned and have not exited *)
LiveSessions == {c \in Calls : spc[c] \in {"recv", "validate", "query", "send"}}

(* C14: the receivers on the bus are exactly those of the sessions that    *)
(* have not exited, so there are as many of the ones as of the others; and *)
(* every step in which a session exits, on Closed, on a terminal error or  *)
(* by being dropped while it awaits, releases its receiver and its sink in *)
(* that very step.                                                         *)
C14_ExitReleasesRegistration ==
  /\ [](/\ Registrations = LiveSessions
        /\ Cardinality(Registrations) = Cardinality(LiveSessions))
  /\ [][\A c \in Calls :
          (c \in LiveSessions /\ c \notin LiveSessions') =>
             /\ spc'[c] \in {"done_ok", "done_err", "aborted"}
             /\ rx[c] = "live" /\ rx'[c] = "dropped"
             /\ sink'[c] = "dropped"
     ]_vars

C14_Witness ==
  \E c, d \in Calls :
    /\ spc[c] = "aborted" /\ rx[c] = "dropped"
    /\ WellFormed(params[c])
    /\ processed[c] # <<>>
    /\ Len(sent[c]) < Len(Concat(params[c], processed[c]))
    /\ spc[d] = "done_err" /\ rx[d] = "dropped"

(* C15: as long as the producer lives (and the model lets it go on), its   *)
(* broadcast is enabled whatever the sessions are doing, and it changes no *)
(* session; a step of one session changes neither the bus nor any other    *)
(* session; a waiting session with a signal at its cursor can receive, and *)
(* receives the signal at its cursor unless it overflowed itself; a Lagged *)
(* is reported only to the session that is more than the capacity behind.  *)
C15_ProducerNeverBlocked ==
  /\ [](/\ (~closed /\ tail < MaxSignals) => ENABLED Broadcast(BlockAt(tail))
        /\ \A c \in Calls : (spc[c] = "recv" /\ next[c] < tail) => ENABLED Recv(c))
  /\ [][/\ tail' # tail =>
             /\ tail' = tail + 1
             /\ UNCHANGED <<callVars>>
             /\ \A c \in Calls : SessionState(c)' = SessionState(c)
        /\ \A c \in Calls :
             /\ SessionState(c)' # SessionState(c) =>
                  /\ UNCHANGED busVars
                  /\ \A d \in Calls \ {c} : SessionState(d)' = SessionState(d)
             /\ (processed'[c] # processed[c]) =>
                  (tail - next[c] <= Cap /\ cur'[c] = log[next[c] + 1])
             /\ LagSum(diag'[c]) # LagSum(diag[c]) => tail - next[c] > Cap
     ]_vars

C15_Witness ==
  \E c, d \in Calls :
    /\ c # d
    /\ Lagged(c) /\ spc[c] = "query"
    /\ ~Lagged(d)
    /\ Len(log) >= 3 /\ processed[d] = log

(* C16: a query that succeeds with zero rows sends nothing, logs nothing   *)
(* and leaves the session waiting with its sink and its receiver; and an   *)
(* address-filtered session that has received B1 (2 matches), B2 (none)    *)
(* and B3 (1 match) and is waiting again has sent exactly the two logs of  *)
(* B1 and then the log of B3, its stream still open.                       *)
C16_EmptyBlockSendsNothing ==
  /\ [][\A c \in Calls :
          (/\ spc[c] = "query"
           /\ spc'[c] \notin {"query", "done_err", "aborted"}
           /\ RowsOf(Validated(params[c], cur[c])) = <<>>) =>
             /\ spc'[c] = "recv"
             /\ sent'[c] = sent[c] /\ diag'[c] = diag[c]
             /\ sink'[c] = "active" /\ rx'[c] = "live"
     ]_vars
  /\ [](\A c \in Calls :
          (params[c] = "addrA" /\ processed[c] = <<"B1", "B2", "B3">> /\ spc[c] = "recv") =>
             /\ sent[c] = << [kind |-> "log", body |-> [address |-> "A", blockHash |-> "B1", logIndex |-> 0]],
                             [kind |-> "log", body |-> [address |-> "A", blockHash |-> "B1", logIndex |-> 2]],
                             [kind |-> "log", body |-> [address |-> "A", blockHash |-> "B3", logIndex |-> 0]] >>
             /\ sink[c] = "active" /\ rx[c] = "live")

C16_Witness ==
  \E c \in Calls :
    /\ params[c] = "addrA"
    /\ processed[c] = <<"B1", "B2", "B3">>
    /\ spc[c] = "recv"
    /\ Len(sent[c]) = 3
    /\ ~closed

(* C17: once the call has arrived its SubscribeParameters never change;    *)
(* the validated parameters of an iteration are built from them and from   *)
(* the hash of the signal just received, nothing else; and what a waiting  *)
(* session has sent is, block by block, the result of that block under     *)
(* those parameters, whatever was received, skipped or lagged over before. *)
C17_NoStateAcrossBlocks ==
  /\ [][\A c \in Calls :
          /\ cpc[c] # "idle" => params'[c] = params[c]
          /\ (inflight'[c] # inflight[c] /\ inflight'[c] # {}) =>
               inflight'[c] = {[filter |-> params[c], block |-> processed[c][Len(processed[c])]]}
          /\ (spc[c] = "query" /\ spc'[c] \in {"send", "recv"}) =>
               rest'[c] = RowsOf([filter |-> params[c], block |-> processed[c][Len(processed[c])]])
     ]_vars
  /\ [](\A c \in Calls :
          spc[c] \in {"recv", "done_ok"} =>
             /\ sent[c] = Concat(params[c], processed[c])
             /\ \A i \in DOMAIN processed[c] :
                  Concat(params[c], SubSeq(processed[c], 1, i)) =
                     Concat(params[c], SubSeq(processed[c], 1, i - 1))
                       \o Concat(params[c], <<processed[c][i]>>))

C17_Witness ==
  \E c \in Calls :
    /\ spc[c] = "recv" /\ params[c] = "any"
    /\ Len(processed[c]) = 3
    /\ processed[c][1] = processed[c][3]
    /\ processed[c][2] # processed[c][1]
    /\ Len(sent[c]) >= 3

(* the first i messages of the block the session is at *)
BlockPrefix(c, i) ==
  LET rows == RowsOf(Validated(params[c], cur[c]))
  IN [k \in 1..i |-> FromJson(RpcLogFrom(rows[k]))]

(* C18: when serialization or send fails on row i of a block, the session  *)
(* has sent the full results of the earlier blocks and exactly rows 0..i-1 *)
(* of this one, in order; it ends there, and neither row i nor any later   *)
(* row is ever sent: the block is delivered as a proper prefix.            *)
C18_RowFailureLeavesProperPrefix ==
  /\ [][\A c \in Calls :
          (spc[c] = "send" /\ spc'[c] \notin {"send", "recv", "aborted"}) =>
             LET rows == RowsOf(Validated(params[c], cur[c]))
                 i == Len(rows) - Len(rest[c])
             IN /\ spc'[c] = "done_err"
                /\ i >= 0 /\ i < Len(rows)
                /\ sent[c] = Concat(params[c], Front(processed[c])) \o BlockPrefix(c, i)
                /\ sent'[c] = sent[c]
     ]_vars
  /\ [](\A c \in Calls :
          (FailedOn(c, "serialization") \/ FailedOn(c, "send")) =>
             /\ spc[c] = "done_err" /\ rest[c] = <<>>
             /\ \E i \in 0..(Len(RowsOf(Validated(params[c], cur[c]))) - 1) :
                  sent[c] = Concat(params[c], Front(processed[c])) \o BlockPrefix(c, i))
  /\ [][\A c \in Calls :
          (FailedOn(c, "serialization") \/ FailedOn(c, "send")) => sent'[c] = sent[c]]_vars

C18_Witness ==
  \E c \in Calls :
    /\ FailedOn(c, "send")
    /\ Len(processed[c]) >= 2
    /\ Len(RowsOf(Validated(params[c], cur[c]))) = 3
    /\ sent[c] = Concat(params[c], Front(processed[c])) \o BlockPrefix(c, 2)
    /\ Concat(params[c], Front(processed[c])) # <<>>

(* C19: after the producer has closed, a receive of a session that still   *)
(* has a signal buffered yields that signal, the one at its cursor; the    *)
(* session ends with success only with its cursor at the end of the bus,   *)
(* having received, if it never lagged, everything broadcast since its     *)
(* registration; and a session that is alive when the producer has closed  *)
(* eventually exits: with success, unless a terminal error or the runtime  *)
(* ended it first.                                                         *)
C19_DrainsThenEndsWithSuccess ==
  /\ [][\A c \in Calls :
          (closed /\ RecvStep(c) /\ next[c] < tail /\ tail - next[c] <= Cap) =>
             /\ spc'[c] = "validate"
             /\ cur'[c] = log[next[c] + 1]
             /\ processed'[c] = Append(processed[c], log[next[c] + 1])
     ]_vars
  /\ [](\A c \in Calls :
          spc[c] = "done_ok" =>
             /\ closed /\ next[c] = Len(log)
             /\ ~Lagged(c) => processed[c] = SubSeq(log, regAt[c] + 1, Len(log)))
  /\ \A c \in Calls :
       (closed /\ spc[c] \in {"recv", "validate", "query", "send"})
          ~> (spc[c] \in {"done_ok", "done_err", "aborted"})
  /\ \A c \in Calls :
       (closed /\ spc[c] \in {"recv", "validate", "query", "send"})
          ~> (spc[c] = "done_ok" \/ LastDiag(c, "error") \/ spc[c] = "aborted")

C19_Witness ==
  \E c \in Calls :
    /\ closed
    /\ spc[c] = "send"
    /\ processed[c] # <<>>
    /\ next[c] < tail
    /\ tail - next[c] <= Cap

RECURSIVE IsSubseq(_, _)
(* a can be obtained from b by leaving elements out *)
IsSubseq(a, b) ==
  IF a = <<>> THEN TRUE
  ELSE IF b = <<>> THEN FALSE
  ELSE IF Head(a) = Head(b) THEN IsSubseq(Tail(a), Tail(b))
  ELSE IsSubseq(a, Tail(b))

RECURSIVE SentBlocks(_)
(* the blocks of a message sequence, each run of one block counted once *)
SentBlocks(ms) ==
  IF ms = <<>> THEN <<>>
  ELSE IF Len(ms) >= 2 /\ ms[1].body.blockHash = ms[2].body.blockHash
       THEN SentBlocks(Tail(ms))
       ELSE <<ms[1].body.blockHash>> \o SentBlocks(Tail(ms))

(* C20: the blocks a session has received, and the blocks it has sent      *)
(* messages for, are subsequences, in broadcast order, of the signals      *)
(* broadcast since its registration; and every message it sends is a row   *)
(* of the query result of the signal it is processing, the last one it     *)
(* received.                                                               *)
C20_NothingSpurious ==
  /\ [](\A c \in Calls :
          LET since == SubSeq(log, regAt[c] + 1, Len(log))
          IN /\ IsSubseq(processed[c], since)
             /\ IsSubseq(SentBlocks(sent[c]), since)
             /\ IsSubseq(SentBlocks(sent[c]), processed[c]))
  /\ [][\A c \in Calls :
          sent'[c] # sent[c] =>
             /\ spc[c] = "send"
             /\ Len(sent'[c]) = Len(sent[c]) + 1
             /\ SubSeq(sent'[c], 1, Len(sent[c])) = sent[c]
             /\ LET m == sent'[c][Len(sent'[c])]
                    rows == RowsOf([filter |-> params[c], block |-> log[next[c]]])
                IN /\ m.body.blockHash = log[next[c]]
                   /\ processed[c][Len(processed[c])] = log[next[c]]
                   /\ \E k \in DOMAIN rows : m = FromJson(RpcLogFrom(rows[k]))
     ]_vars

C20_Witness ==
  \E c \in Calls :
    /\ Lagged(c)
    /\ Len(SentBlocks(sent[c])) >= 2
    /\ Len(processed[c]) < Len(log) - regAt[c]
    /\ processed[c] # SubSeq(log, 1, Len(processed[c]))
====
